---------------------------- MODULE Spec2Model ----------------------------
(* EDIFACT encodation of datamatrix-rs (src/encodation/edifact.rs) as a    *)
(* state machine: one run of encode() against an encoding context.         *)
(* The context (input cursor, codeword sink, mode, symbol-space and        *)
(* switch-now answers) is the host; its answers are inputs of the steps.   *)
EXTENDS Integers, Naturals, Sequences, FiniteSets, TLC

VARIABLES
    ctx,        \* the EncodingContext: [data, pos, codewords, mode]
    symbols,    \* the pending group, ArrayVec<[u8; 4]>
    pc,         \* "loop" | "end" | "write4" | "done"
    result,     \* "none" | "Ok" | "IllegalEdifactCharacter" | "NotEnoughSpace"
    asked,      \* number of maybe_switch_mode() queries made
    switch,     \* the last answer of maybe_switch_mode()
    entry,      \* ctx and symbols as they were when handle_end was entered
    q_cheap,    \* answer to symbol_size_left(ascii_size), NoQuery if not asked
    q_end,      \* answer to symbol_size_left(0 | s.len()), NoQuery if not asked
    branch      \* the branch handle_end took

vars == <<ctx, symbols, pc, result, asked, switch, entry, q_cheap, q_end, branch>>

-----------------------------------------------------------------------------
(* Bounds of the model *)

\* messages of every length up to MaxLen over Chars
MaxLen == 6
\* plus the uniform messages up to this length (more than 4 characters left
\* after a flushed group)
LongLen == 9
\* the host answers Some(0) .. Some(MaxSpace) or None to symbol_size_left
MaxSpace == 3

\* the characters on both sides of each bound of the encodable range, and a digit
Chars == {31, 32, 49, 94, 95}
\* values handed to write4 on its own: 6-bit values and values with high bits
W4Vals == {0, 1, 26, 36, 54, 63, 100, 255}

NoQuery == -2
None == -1
Answers == {None} \cup (0..MaxSpace)

SeqsUpTo(S, n) == UNION {[1..k -> S] : k \in 0..n}

Messages ==
    SeqsUpTo(Chars, MaxLen) \cup {[i \in 1..k |-> 65] : k \in (MaxLen + 1)..LongLen}

-----------------------------------------------------------------------------
(* u8 arithmetic *)

RECURSIVE BitOr(_, _)
BitOr(a, b) ==
    IF a = 0 THEN b
    ELSE IF b = 0 THEN a
    ELSE (IF a % 2 = 1 \/ b % 2 = 1 THEN 1 ELSE 0) + 2 * BitOr(a \div 2, b \div 2)

\* x << n on a u8: bits shifted out are lost
Shl(x, n) == (x * (2 ^ n)) % 256
\* x >> n
Shr(x, n) == x \div (2 ^ n)
\* x & 0b11_1111
Low6(x) == x % 64

-----------------------------------------------------------------------------
(* The encoding context *)

eat_some(c) == c.pos < Len(c.data)
eat_ch(c) == c.data[c.pos + 1]
eat(c) == [c EXCEPT !.pos = @ + 1]
characters_left(c) == Len(c.data) - c.pos
has_more_characters(c) == characters_left(c) > 0
rest(c) == SubSeq(c.data, c.pos + 1, Len(c.data))
backup(c, n) == [c EXCEPT !.pos = @ - n]
push(c, cw) == [c EXCEPT !.codewords = Append(@, cw)]
set_mode(c, m) == [c EXCEPT !.mode = m]

\* symbol_size_left is a function of the context and its argument: between
\* the two queries of one handle_end nothing is pushed, so an equal argument
\* has an equal answer, and no symbol large enough for n more codewords
\* means none for m >= n more (the second argument, s.len(), is never below
\* the first, the ASCII size of the same characters)
symbol_size_left_ok(n1, a1, n2, a2) ==
    /\ n1 = n2 => a1 = a2
    /\ (n1 <= n2 /\ a1 = None) => a2 = None

\* ascii::encoding_size: two digits share a codeword, a byte above 127 takes
\* two (upper shift), every other character one
is_digit(ch) == ch \in 48..57
RECURSIVE encoding_size(_)
encoding_size(d) ==
    IF d = <<>> THEN 0
    ELSE IF Len(d) >= 2 /\ is_digit(d[1]) /\ is_digit(d[2])
         THEN 1 + encoding_size(SubSeq(d, 3, Len(d)))
    ELSE IF d[1] > 127 THEN 2 + encoding_size(Tail(d))
    ELSE 1 + encoding_size(Tail(d))

-----------------------------------------------------------------------------
(* edifact.rs *)

UNLATCH == 31

\* the upper bound off by one
is_encodable_wide(ch) == ch \in 32..95

is_encodable(ch) == ch \in 32..94

\* s.get(i).cloned().unwrap_or(0), i counted from 0
Get0(s, i) == IF i < Len(s) THEN s[i + 1] ELSE 0

\* the second value used without its mask
write4_unmasked(c, s) ==
    LET s1 == Get0(s, 1)
        s2 == Low6(Get0(s, 2))
        s3 == Low6(Get0(s, 3))
        c1 == push(c, BitOr(Shl(s[1], 2), Shr(s1, 4)))
        c2 == push(c1, BitOr(Shl(s1, 4), Shr(s2, 2)))
        c3 == push(c2, BitOr(Shl(s2, 6), s3))
    IN  IF Len(s) >= 3 THEN c3
        ELSE IF Len(s) >= 2 THEN c2
        ELSE c1

\* the length tests off by one: two values give one codeword
write4_short(c, s) ==
    LET s1 == Low6(Get0(s, 1))
        s2 == Low6(Get0(s, 2))
        s3 == Low6(Get0(s, 3))
        c1 == push(c, BitOr(Shl(s[1], 2), Shr(s1, 4)))
        c2 == push(c1, BitOr(Shl(s1, 4), Shr(s2, 2)))
        c3 == push(c2, BitOr(Shl(s2, 6), s3))
    IN  IF Len(s) > 3 THEN c3
        ELSE IF Len(s) > 2 THEN c2
        ELSE c1

write4(c, s) ==
    LET s1 == Low6(Get0(s, 1))
        s2 == Low6(Get0(s, 2))
        s3 == Low6(Get0(s, 3))
        c1 == push(c, BitOr(Shl(s[1], 2), Shr(s1, 4)))
        c2 == push(c1, BitOr(Shl(s1, 4), Shr(s2, 2)))
        c3 == push(c2, BitOr(Shl(s2, 6), s3))
    IN  IF Len(s) >= 3 THEN c3
        ELSE IF Len(s) >= 2 THEN c2
        ELSE c1

\* let rest_chars = s.len() + ctx.characters_left()
rest_chars(c, s) == Len(s) + characters_left(c)

\* the tail whose ASCII size is computed: pending values, then the unconsumed
rest_tail(c, s) == s \o rest(c)

\* whether handle_end asks the host symbol_size_left(ascii_size)
cheap_asked(c, s) ==
    /\ 0 < rest_chars(c, s)
    /\ rest_chars(c, s) <= 4
    /\ encoding_size(rest_tail(c, s)) <= 2

\* the answer compared without adding ascii_size back
cheap_space_ok_after(ascii_size, ans) ==
    /\ ans # None
    /\ ans <= 2
    /\ ascii_size <= ans

\* Some(space) if space <= 2 && ascii_size <= space, space = answer + ascii_size
cheap_space_ok(ascii_size, ans) ==
    /\ ans # None
    /\ ans + ascii_size <= 2
    /\ ascii_size <= ans + ascii_size

\* the pending characters are not pushed back
end_cheap_no_backup(c, s) == set_mode(c, "Ascii")

\* ctx.backup(s.len()); ctx.set_mode(Ascii); return Ok(())
end_cheap(c, s) == set_mode(backup(c, Len(s)), "Ascii")

\* None taken as no space left instead of an error
size_known_always(ans) == TRUE

\* symbol_size_left(n).ok_or(NotEnoughSpace)?: the answer is Some
size_known(ans) == ans # None

\* >= 0 instead of > 0
space_left_ge(ans) == ans >= 0

\* ... > 0, on an answer that is Some
space_left(ans) == ans > 0

\* empty buffer, no more characters: the padding case
end_eod(c, ans) ==
    IF space_left(ans) THEN set_mode(push(c, Shl(UNLATCH, 2)), "Ascii") ELSE c

\* the mode switched as in the padding case
end_switch_set_mode(c) == set_mode(push(c, Shl(UNLATCH, 2)), "Ascii")

\* empty buffer, more characters: mode switch
end_switch(c) == push(c, Shl(UNLATCH, 2))

\* the s.len() == 3 case forgotten
add_unlatch_space_only(ans, s) == space_left(ans)

\* if space_left || s.len() == 3
add_unlatch(ans, s) == space_left(ans) \/ Len(s) = 3

\* non-empty buffer: maybe add UNLATCH, then write4
end_flush(c, s, ans) ==
    IF add_unlatch(ans, s)
    THEN write4(set_mode(c, "Ascii"), Append(s, UNLATCH))
    ELSE write4(c, s)

\* handle_end(ctx, s) with the host's answers a1 (to the cheap-finish query)
\* and a2 (to the query of the branch taken after it)
handle_end(c, s, a1, a2) ==
    IF cheap_asked(c, s) /\ cheap_space_ok(encoding_size(rest_tail(c, s)), a1)
    THEN [ctx |-> end_cheap(c, s), result |-> "Ok", branch |-> "cheap",
          q_cheap |-> a1, q_end |-> NoQuery]
    ELSE
      LET q1 == IF cheap_asked(c, s) THEN a1 ELSE NoQuery IN
      IF s = <<>>
      THEN IF ~has_more_characters(c)
           THEN IF ~size_known(a2)
                THEN [ctx |-> c, result |-> "NotEnoughSpace", branch |-> "eod",
                      q_cheap |-> q1, q_end |-> a2]
                ELSE [ctx |-> end_eod(c, a2), result |-> "Ok", branch |-> "eod",
                      q_cheap |-> q1, q_end |-> a2]
           ELSE [ctx |-> end_switch(c), result |-> "Ok", branch |-> "switch",
                 q_cheap |-> q1, q_end |-> NoQuery]
      ELSE IF ~size_known(a2)
           THEN [ctx |-> c, result |-> "NotEnoughSpace", branch |-> "flush",
                 q_cheap |-> q1, q_end |-> a2]
           ELSE [ctx |-> end_flush(c, s, a2), result |-> "Ok", branch |-> "flush",
                 q_cheap |-> q1, q_end |-> a2]

\* the debug assertions of handle_end's last branch
debug_asserts(c, s) == Len(s) <= 3 /\ ~has_more_characters(c)

\* the group flushed one value late
group_full_late(s) == Len(s) > 4

\* if symbols.len() == 4
group_full(s) == Len(s) = 4

-----------------------------------------------------------------------------
(* One run of encode *)

NoEntry == [ctx |-> [data |-> <<>>, pos |-> 0, codewords |-> <<>>, mode |-> "Edifact"],
            s |-> <<>>]

Init ==
    /\ ctx \in {[data |-> d, pos |-> 0, codewords |-> <<>>, mode |-> "Edifact"] :
                    d \in Messages}
    /\ symbols = <<>>
    /\ pc = "loop"
    /\ result = "none"
    /\ asked = 0
    /\ switch = FALSE
    /\ entry = NoEntry
    /\ q_cheap = NoQuery
    /\ q_end = NoQuery
    /\ branch = "none"

\* ctx.eat() returns None: the loop ends
EatNone ==
    /\ pc = "loop"
    /\ ~eat_some(ctx)
    /\ pc' = "end"
    /\ UNCHANGED <<ctx, symbols, result, asked, switch, entry, q_cheap, q_end, branch>>

\* the character taken is not encodable: return Err
EatIllegal ==
    /\ pc = "loop"
    /\ eat_some(ctx)
    /\ ~is_encodable(eat_ch(ctx))
    /\ ctx' = eat(ctx)
    /\ pc' = "done"
    /\ result' = "IllegalEdifactCharacter"
    /\ UNCHANGED <<symbols, asked, switch, entry, q_cheap, q_end, branch>>

\* the character is pushed and the group is not full yet
EatPush ==
    /\ pc = "loop"
    /\ eat_some(ctx)
    /\ is_encodable(eat_ch(ctx))
    /\ ~group_full(Append(symbols, eat_ch(ctx)))
    /\ ctx' = eat(ctx)
    /\ symbols' = Append(symbols, eat_ch(ctx))
    /\ UNCHANGED <<pc, result, asked, switch, entry, q_cheap, q_end, branch>>

\* the character completes a group: write4, clear, maybe_switch_mode
EatFlush ==
    /\ pc = "loop"
    /\ eat_some(ctx)
    /\ is_encodable(eat_ch(ctx))
    /\ group_full(Append(symbols, eat_ch(ctx)))
    /\ ctx' = write4(eat(ctx), Append(symbols, eat_ch(ctx)))
    /\ symbols' = <<>>
    /\ asked' = asked + 1
    /\ \E sw \in BOOLEAN :
          /\ switch' = sw
          /\ pc' = IF sw THEN "end" ELSE "loop"
    /\ UNCHANGED <<result, entry, q_cheap, q_end, branch>>

\* handle_end(ctx, symbols)
HandleEnd ==
    /\ pc = "end"
    /\ \E a1, a2 \in Answers :
          /\ (cheap_asked(ctx, symbols) /\ symbols # <<>>) =>
                symbol_size_left_ok(encoding_size(rest_tail(ctx, symbols)), a1,
                                    Len(symbols), a2)
          /\ LET r == handle_end(ctx, symbols, a1, a2) IN
                /\ ctx' = r.ctx
                /\ result' = r.result
                /\ branch' = r.branch
                /\ q_cheap' = r.q_cheap
                /\ q_end' = r.q_end
    /\ entry' = [ctx |-> ctx, s |-> symbols]
    /\ pc' = "done"
    /\ UNCHANGED <<symbols, asked, switch>>

\* write4 called on its own with any 1 to 4 values
InitW4 ==
    /\ ctx \in {[data |-> <<>>, pos |-> 0, codewords |-> cw, mode |-> "Edifact"] :
                    cw \in {<<>>, <<7>>}}
    /\ symbols \in SeqsUpTo(W4Vals, 4) \ {<<>>}
    /\ pc = "write4"
    /\ result = "none"
    /\ asked = 0
    /\ switch = FALSE
    /\ entry = NoEntry
    /\ q_cheap = NoQuery
    /\ q_end = NoQuery
    /\ branch = "none"

Write4Call ==
    /\ pc = "write4"
    /\ entry' = [ctx |-> ctx, s |-> symbols]
    /\ ctx' = write4(ctx, symbols)
    /\ pc' = "done"
    /\ UNCHANGED <<symbols, result, asked, switch, q_cheap, q_end, branch>>

NextW4 == Write4Call

SpecW4 == InitW4 /\ [][NextW4]_vars

Next == EatNone \/ EatIllegal \/ EatPush \/ EatFlush \/ HandleEnd

Spec == Init /\ [][Next]_vars

-----------------------------------------------------------------------------
(* Properties *)

\* handle_end has run
Ended == pc = "done" /\ branch # "none"

Min(a, b) == IF a <= b THEN a ELSE b

\* the codewords appended since handle_end (or write4) was entered
Emitted ==
    SubSeq(ctx.codewords, Len(entry.ctx.codewords) + 1, Len(ctx.codewords))

\* the codewords the packing rule gives for the values s: low 6 bits of each,
\* missing values 0, the first min(k, 3) of the three
Packed(s) ==
    LET v(i) == IF i <= Len(s) THEN s[i] % 64 ELSE 0
        cw1 == BitOr(v(1) * 4, v(2) \div 16) % 256
        cw2 == BitOr(v(2) * 16, v(3) \div 4) % 256
        cw3 == BitOr(v(3) * 64, v(4)) % 256
    IN  SubSeq(<<cw1, cw2, cw3>>, 1, Min(Len(s), 3))

\* C1: write4 on k = 1..4 values appends exactly the min(k, 3) codewords of
\* the packing rule and changes nothing else; [36, 54, 26, 1] gives
\* [147, 102, 129] and [36, 54, 26] gives [147, 102, 128]
C1_Write4Packs ==
    pc = "done" =>
        /\ ctx = [entry.ctx EXCEPT !.codewords = @ \o Packed(symbols)]
        /\ Len(Emitted) = Min(Len(symbols), 3)
        /\ symbols = <<36, 54, 26, 1>> => Emitted = <<147, 102, 129>>
        /\ symbols = <<36, 54, 26>> => Emitted = <<147, 102, 128>>

C1_Witness ==
    /\ pc = "done"
    /\ symbols = <<36, 54, 26, 1>>
    /\ ctx.codewords = <<7, 147, 102, 129>>

\* C2: a character is accepted iff it is in 32..94; taking any other one ends
\* encode with the illegal-character error in that step, with no codeword
\* emitted, no character pushed back and the mode unchanged, and nothing
\* happens after it
C2_IllegalCharacter ==
    [][ /\ (pc = "loop" /\ eat_some(ctx)) =>
            IF eat_ch(ctx) \in 32..94
            THEN result' = "none"
            ELSE /\ result' = "IllegalEdifactCharacter"
                 /\ pc' = "done"
                 /\ ctx' = [ctx EXCEPT !.pos = @ + 1]
        /\ result = "IllegalEdifactCharacter" => UNCHANGED vars
        /\ result' = "IllegalEdifactCharacter" => (pc = "loop" /\ eat_some(ctx))
      ]_vars

C2_Witness ==
    /\ result = "IllegalEdifactCharacter"
    /\ Len(symbols) = 1
    /\ Len(ctx.codewords) = 3
    /\ ctx.pos = 6
    /\ ctx.mode = "Edifact"

\* C3: handle_end with an empty buffer and no unconsumed input emits the one
\* codeword 124 and sets the mode to ASCII if the host reports space >= 1
\* after reserving 0, and emits nothing and leaves the mode if it reports 0
C3_EodEmptyBuffer ==
    (Ended /\ entry.s = <<>> /\ entry.ctx.pos = Len(entry.ctx.data)) =>
        /\ q_end >= 1 =>
              /\ result = "Ok"
              /\ ctx = [entry.ctx EXCEPT !.codewords = Append(@, 124),
                                         !.mode = "Ascii"]
        /\ q_end = 0 =>
              /\ result = "Ok"
              /\ ctx = entry.ctx
              /\ ctx.mode = "Edifact"

C3_Witness ==
    /\ Ended
    /\ entry.s = <<>>
    /\ entry.ctx.pos = Len(entry.ctx.data)
    /\ Len(entry.ctx.codewords) = 3
    /\ q_end = 1
    /\ Emitted = <<124>>
    /\ ctx.mode = "Ascii"

\* handle_end was entered at the end of the data with 3 pending values
Eod3 == Ended /\ Len(entry.s) = 3 /\ entry.ctx.pos = Len(entry.ctx.data)

\* the final flush emitted 3 codewords, the last one carrying UNLATCH
Flushed3WithUnlatch == Len(Emitted) = 3 /\ Emitted[3] % 64 = 31

\* C4 as stated: with exactly 3 pending values at the end of the data the
\* final flush always emits 3 codewords whose last holds the unlatch value,
\* whatever the host reports
C4_AsStated == (Eod3 /\ q_cheap # None /\ q_end # None) => Flushed3WithUnlatch

\* C4 amended: the same, when the cheap finish is not taken and the host
\* answers the flush query with some space (any value, 0 included)
C4_Eod3AppendsUnlatch ==
    (Eod3 /\ branch # "cheap" /\ q_end # None) =>
        /\ branch = "flush"
        /\ result = "Ok"
        /\ Flushed3WithUnlatch
        /\ Emitted = Packed(Append(entry.s, 31))
        /\ ctx.mode = "Ascii"

C4_Witness ==
    /\ Eod3
    /\ branch = "flush"
    /\ q_end = 0
    /\ result = "Ok"
    /\ Flushed3WithUnlatch

\* the tail handle_end looked at and its size in the default mode
EntryRestChars == Len(entry.s) + (Len(entry.ctx.data) - entry.ctx.pos)
EntryTail ==
    entry.s \o SubSeq(entry.ctx.data, entry.ctx.pos + 1, Len(entry.ctx.data))
EntryAsciiSize == encoding_size(EntryTail)

\* 1..4 characters remain and they take at most 2 codewords in ASCII
CheapCase == Ended /\ EntryRestChars \in 1..4 /\ EntryAsciiSize <= 2

\* the cheap finish: nothing emitted, the pending characters pushed back,
\* the mode set to ASCII, success
CheapFinishDone ==
    /\ branch = "cheap"
    /\ result = "Ok"
    /\ Emitted = <<>>
    /\ ctx.pos = entry.ctx.pos - Len(entry.s)
    /\ ctx = [entry.ctx EXCEPT !.pos = @ - Len(entry.s), !.mode = "Ascii"]

\* C5 as stated: in the cheap case, if the symbol has room for the ASCII
\* codewords (the host reports some space after reserving them), the cheap
\* finish is taken
C5_AsStated == (CheapCase /\ q_cheap >= 0) => CheapFinishDone

\* C5 amended: ... and the symbol has at most 2 codewords of room in all
\* (the space reported after reserving plus the reserved codewords is <= 2)
C5_CheapFinish ==
    (CheapCase /\ q_cheap >= 0 /\ q_cheap + EntryAsciiSize <= 2) => CheapFinishDone

\* the tail "AB" (two non-digits) with exactly 2 codewords of room
C5_Witness ==
    /\ CheapCase
    /\ entry.s = <<32, 94>>
    /\ q_cheap = 0
    /\ CheapFinishDone
    /\ ctx.pos = 0

\* the 6-bit values held by a sequence of codewords: 4 per 3 codewords, and
\* 1 or 2 for a last group of 1 or 2 codewords
RECURSIVE Unpack(_)
Unpack(cw) ==
    IF Len(cw) = 0 THEN <<>>
    ELSE IF Len(cw) = 1 THEN <<cw[1] \div 4>>
    ELSE IF Len(cw) = 2 THEN <<cw[1] \div 4, (cw[1] % 4) * 16 + cw[2] \div 16>>
    ELSE <<cw[1] \div 4,
           (cw[1] % 4) * 16 + cw[2] \div 16,
           (cw[2] % 16) * 4 + cw[3] \div 64,
           cw[3] % 64>> \o Unpack(SubSeq(cw, 4, Len(cw)))

AllEncodable == \A i \in 1..Len(ctx.data) : ctx.data[i] \in 32..94

\* every consumed character is held, in order, by the emitted codewords
ConsumedArePacked ==
    /\ Len(Unpack(ctx.codewords)) >= ctx.pos
    /\ \A i \in 1..ctx.pos : Unpack(ctx.codewords)[i] = ctx.data[i] % 64

\* C6 as stated: on an input of encodable characters, with the host never
\* short of space, encode returns with every character of the message consumed
C6_AsStated ==
    (pc = "done" /\ result = "Ok" /\ AllEncodable /\ q_cheap # None /\ q_end # None)
        => ctx.pos = Len(ctx.data)

\* C6 amended: ... encode returns with every character consumed unless it
\* took the cheap finish or stopped on a switch request with input left; in
\* every case the characters consumed (net of push-backs) are exactly those
\* packed into the emitted codewords, so none is dropped
C6_NoCharacterDropped ==
    (pc = "done" /\ result = "Ok" /\ AllEncodable) =>
        /\ branch \notin {"cheap", "switch"} => ctx.pos = Len(ctx.data)
        /\ ConsumedArePacked

C6_Witness ==
    /\ pc = "done"
    /\ result = "Ok"
    /\ AllEncodable
    /\ branch = "flush"
    /\ Len(entry.s) = 2
    /\ q_end = 0
    /\ ctx.pos = 6
    /\ Len(ctx.codewords) = 5

\* C7 as stated: after a none answer to any symbol-space query of handle_end
\* encode returns the not-enough-space error
C7_AsStated ==
    (Ended /\ (q_cheap = None \/ q_end = None)) => result = "NotEnoughSpace"

\* C7 amended: a none answer to the query of the end-of-data branches (empty
\* buffer without input left, or the final flush) makes encode fail with
\* not-enough-space and emit nothing; a none answer to the cheap-finish query
\* only rules the cheap finish out, and encode then succeeds exactly when the
\* buffer is empty and input is left (the mode-switch branch, which asks
\* nothing more)
C7_NoneIsAnError ==
    Ended =>
        /\ q_end = None => (result = "NotEnoughSpace" /\ ctx = entry.ctx)
        /\ result = "NotEnoughSpace" => q_end = None
        /\ q_cheap = None =>
              /\ branch # "cheap"
              /\ result = "Ok" <=> (entry.s = <<>> /\ entry.ctx.pos < Len(entry.ctx.data))

C7_Witness ==
    /\ Ended
    /\ q_end = None
    /\ result = "NotEnoughSpace"
    /\ Len(entry.s) = 2
    /\ Len(ctx.codewords) = 3

\* C8 as stated: in the cheap case the cheap finish is taken exactly when the
\* space r the host reports after reserving a codewords has r <= 2 and a <= r
C8_AsStated ==
    CheapCase =>
        (branch = "cheap" <=>
            (q_cheap >= 0 /\ q_cheap <= 2 /\ EntryAsciiSize <= q_cheap))

\* C8 amended: ... exactly when r + a <= 2 (the room before reserving is at
\* most 2; a <= r + a always holds); for every other r, or none, handle_end
\* falls through to the unlatch and flush branches
C8_CheapFinishCondition ==
    CheapCase =>
        /\ q_cheap # NoQuery
        /\ branch = "cheap" <=> (q_cheap >= 0 /\ q_cheap + EntryAsciiSize <= 2)
        /\ branch # "cheap" => branch \in {"switch", "flush"}

C8_Witness ==
    /\ CheapCase
    /\ EntryAsciiSize = 2
    /\ q_cheap = 0
    /\ branch = "cheap"

\* C9: maybe_switch_mode is asked once per flushed group, right after its
\* three codewords are written and the buffer is cleared; on a yes with input
\* left (cheap finish apart) encode takes no more characters, emits the one
\* codeword 124 after the group's three, leaves the mode and returns Ok
C9_SwitchRequest ==
    /\ pc \in {"loop", "end"} =>
          /\ Len(ctx.codewords) = 3 * asked
          /\ ctx.pos = 4 * asked + Len(symbols)
    /\ (pc = "end" /\ switch) => (symbols = <<>> /\ asked >= 1)
    /\ (Ended /\ switch /\ entry.ctx.pos < Len(entry.ctx.data) /\ branch # "cheap") =>
          /\ branch = "switch"
          /\ result = "Ok"
          /\ entry.ctx.pos = 4 * asked
          /\ Len(entry.ctx.codewords) = 3 * asked
          /\ ctx = [entry.ctx EXCEPT !.codewords = Append(@, 124)]
          /\ ctx.mode = "Edifact"

C9_Witness ==
    /\ Ended
    /\ switch
    /\ branch = "switch"
    /\ Len(ctx.data) - ctx.pos = 5
    /\ Len(ctx.codewords) = 4
    /\ ctx.codewords[4] = 124

\* C10: the buffer never holds 4 values between steps (a full group is
\* flushed and cleared in the step that completes it), handle_end is entered
\* with 0..3 values, with a non-empty buffer only when no input is left, with
\* input left only on a switch request just answered, and its two debug
\* assertions hold
C10_BufferInvariant ==
    /\ Len(symbols) <= 3
    /\ pc = "end" =>
          /\ symbols # <<>> => ~has_more_characters(ctx)
          /\ has_more_characters(ctx) => (symbols = <<>> /\ switch)
    /\ (Ended /\ entry.s # <<>>) => debug_asserts(entry.ctx, entry.s)

C10_Witness ==
    /\ Ended
    /\ Len(entry.s) = 3
    /\ asked = 1
    /\ branch = "flush"
    /\ result = "Ok"

=============================================================================
